---- MODULE Spec2Model ----
(***************************************************************************)
(* Model of the ink! ERC20 contract in src/lib.rs: the storage struct      *)
(* Erc20 (total_supply, balances, allowances), the constructor new and the *)
(* messages transfer, transfer_from and approve, with the events they hand *)
(* to the environment.  Each message is one atomic step of the model, as   *)
(* the contract has no concurrency of its own.                             *)
(***************************************************************************)
EXTENDS Integers, Sequences, FiniteSets, TLC

\* ------------------------------------------------------------------ bounds
\* Width of the Balance type in the model (u128 in the contract).
BalanceBits == 2
\* Spec: largest amount passed to a message, largest supply passed to new,
\* and number of messages sent after construction.
MaxValue == 1
MaxSupply == 2
MaxCalls == 2
\* SpecWide: number of messages sent after construction.
MaxCallsWide == 1
\* SpecDeep: number of messages sent after construction.
MaxCallsDeep == 4

\* ------------------------------------------------------------ basic types
Accounts == {"Alice", "Bob", "Charlie"}

RECURSIVE Pow2(_)
Pow2(n) == IF n = 0 THEN 1 ELSE 2 * Pow2(n - 1)

\* Balance::MAX for the modelled width.
MAX == Pow2(BalanceBits) - 1

Min(a, b) == IF a < b THEN a ELSE b

\* Every amount is a Balance.
Balances == 0 .. MAX

\* Option<AccountId>
None == << >>
Some(a) == << a >>

\* enum Error, and the outcome of a message
BalanceTooLow == "BalanceTooLow"
AllowanceToolow == "AllowanceToolow"
Ok == "Ok"
\* the message aborted on an arithmetic overflow (overflow-checks build)
Panic == "Panic"

\* ------------------------------------------------- ink::storage::Mapping
\* Mapping::new(): no entries.
MappingNew == << >>

\* Mapping::get(k).unwrap_or_default(): an absent key reads as 0.
MappingGet(m, k) == IF k \in DOMAIN m THEN m[k] ELSE 0

\* Mapping::insert(k, v): creates or overwrites the entry.
MappingInsert(m, k, v) ==
    [x \in (DOMAIN m) \cup {k} |-> IF x = k THEN v ELSE m[x]]

\* --------------------------------------------------------------- events
TransferEvent(from, to, value) ==
    [event |-> "Transfer", from |-> from, to |-> to, value |-> value]

ApprovalEvent(from, to, value) ==
    [event |-> "Approval", from |-> from, to |-> to, value |-> value]

\* ---------------------------------------------------------------- state
VARIABLES
    total_supply,     \* Erc20.total_supply
    balances,         \* Erc20.balances : Mapping<AccountId, Balance>
    allowances,       \* Erc20.allowances : Mapping<(AccountId, AccountId), Balance>
    events,           \* events emitted so far, in order
    last,             \* the latest call: message, caller, arguments, result
    ncalls,           \* messages sent since construction
    ceiling,          \* per (owner, spender): value of the latest approve (0 if none)
    moved,            \* per (owner, spender): moved by transfer_from since that approve
    taken             \* per (owner, spender): moved by transfer_from since construction

vars == << total_supply, balances, allowances, events, last, ncalls,
           ceiling, moved, taken >>

\* The storage struct as one value.
Storage == [total_supply |-> total_supply, balances |-> balances,
            allowances |-> allowances]

\* What a constructor or message produces: the storage it leaves, the
\* events it emitted, and its return value.
Outcome(self, emitted, result) ==
    [self |-> self, emitted |-> emitted, result |-> result]

\* ---------------------------------------------------- contract functions
\* new that leaves the caller without the supply
new_NoCredit(caller, supply) ==
    Outcome([total_supply |-> supply,
             balances |-> MappingNew,
             allowances |-> MappingNew],
            << TransferEvent(None, Some(caller), supply) >>,
            Ok)

\* pub fn new(total_supply) with env().caller() = caller
new(caller, supply) ==
    Outcome([total_supply |-> supply,
             balances |-> MappingInsert(MappingNew, caller, supply),
             allowances |-> MappingNew],
            << TransferEvent(None, Some(caller), supply) >>,
            Ok)

\* pub fn total_supply(&self)
get_total_supply(self) == self.total_supply

\* pub fn balance_of(&self, who)
balance_of(self, who) == MappingGet(self.balances, who)

\* transfer_helper that compares value with the receiver's balance
transfer_helper_CheckTo(self, from, to, value, checks) ==
    LET balance_from == balance_of(self, from)
        balance_to == balance_of(self, to)
    IN  IF value > balance_to
        THEN Outcome(self, << >>, BalanceTooLow)
        ELSE LET s1 == [self EXCEPT !.balances =
                            MappingInsert(@, from, balance_from - value)]
             IN  IF balance_to + value > MAX /\ checks
                 THEN Outcome(s1, << >>, Panic)
                 ELSE Outcome([s1 EXCEPT !.balances =
                                  MappingInsert(@, to, (balance_to + value) % (MAX + 1))],
                              << TransferEvent(Some(from), Some(to), value) >>,
                              Ok)

\* transfer_helper that also takes value off total_supply
transfer_helper_Burn(self, from, to, value, checks) ==
    LET balance_from == balance_of(self, from)
        balance_to == balance_of(self, to)
    IN  IF value > balance_from
        THEN Outcome(self, << >>, BalanceTooLow)
        ELSE LET s1 == [self EXCEPT !.balances =
                            MappingInsert(@, from, balance_from - value),
                            !.total_supply = @ - value]
             IN  IF balance_to + value > MAX /\ checks
                 THEN Outcome(s1, << >>, Panic)
                 ELSE Outcome([s1 EXCEPT !.balances =
                                  MappingInsert(@, to, (balance_to + value) % (MAX + 1))],
                              << TransferEvent(Some(from), Some(to), value) >>,
                              Ok)

\* transfer_helper without the balance check
transfer_helper_NoCheck(self, from, to, value, checks) ==
    LET balance_from == balance_of(self, from)
        balance_to == balance_of(self, to)
    IN  IF FALSE
        THEN Outcome(self, << >>, BalanceTooLow)
        ELSE LET s1 == [self EXCEPT !.balances =
                            MappingInsert(@, from, balance_from - value)]
             IN  IF balance_to + value > MAX /\ checks
                 THEN Outcome(s1, << >>, Panic)
                 ELSE Outcome([s1 EXCEPT !.balances =
                                  MappingInsert(@, to, (balance_to + value) % (MAX + 1))],
                              << TransferEvent(Some(from), Some(to), value) >>,
                              Ok)

\* transfer_helper that emits the event before the balance check
transfer_helper_EmitFirst(self, from, to, value, checks) ==
    LET balance_from == balance_of(self, from)
        balance_to == balance_of(self, to)
    IN  IF value > balance_from
        THEN Outcome(self, << TransferEvent(Some(from), Some(to), value) >>, BalanceTooLow)
        ELSE LET s1 == [self EXCEPT !.balances =
                            MappingInsert(@, from, balance_from - value)]
             IN  IF balance_to + value > MAX /\ checks
                 THEN Outcome(s1, << >>, Panic)
                 ELSE Outcome([s1 EXCEPT !.balances =
                                  MappingInsert(@, to, (balance_to + value) % (MAX + 1))],
                              << TransferEvent(Some(from), Some(to), value) >>,
                              Ok)

\* transfer_helper that refuses value = balance_from
transfer_helper_StrictCheck(self, from, to, value, checks) ==
    LET balance_from == balance_of(self, from)
        balance_to == balance_of(self, to)
    IN  IF value >= balance_from
        THEN Outcome(self, << >>, BalanceTooLow)
        ELSE LET s1 == [self EXCEPT !.balances =
                            MappingInsert(@, from, balance_from - value)]
             IN  IF balance_to + value > MAX /\ checks
                 THEN Outcome(s1, << >>, Panic)
                 ELSE Outcome([s1 EXCEPT !.balances =
                                  MappingInsert(@, to, (balance_to + value) % (MAX + 1))],
                              << TransferEvent(Some(from), Some(to), value) >>,
                              Ok)

\* pub fn transfer_helper(&mut self, from, to, value).  Both balances are
\* read before either is written; the second insert uses the value of
\* balance_to read at the start.  balance_to + value is computed after the
\* first insert has been done.
transfer_helper(self, from, to, value, checks) ==
    LET balance_from == balance_of(self, from)
        balance_to == balance_of(self, to)
    IN  IF value > balance_from
        THEN Outcome(self, << >>, BalanceTooLow)
        ELSE LET s1 == [self EXCEPT !.balances =
                            MappingInsert(@, from, balance_from - value)]
             IN  IF balance_to + value > MAX /\ checks
                 THEN Outcome(s1, << >>, Panic)
                 ELSE Outcome([s1 EXCEPT !.balances =
                                  MappingInsert(@, to, (balance_to + value) % (MAX + 1))],
                              << TransferEvent(Some(from), Some(to), value) >>,
                              Ok)

\* pub fn transfer(&mut self, to, value) with env().caller() = caller
transfer(self, caller, to, value, checks) ==
    transfer_helper(self, caller, to, value, checks)

\* transfer_from without the allowance check
transfer_from_Unchecked(self, caller, from, to, value, checks) ==
    LET allowance == MappingGet(self.allowances, << from, caller >>)
    IN  transfer_helper(
            [self EXCEPT !.allowances =
                MappingInsert(@, << from, caller >>, allowance - value)],
            from, to, value, checks)

\* transfer_from that never writes the allowance
transfer_from_NoDecrement(self, caller, from, to, value, checks) ==
    LET allowance == MappingGet(self.allowances, << from, caller >>)
    IN  IF allowance < value
        THEN Outcome(self, << >>, AllowanceToolow)
        ELSE transfer_helper(self, from, to, value, checks)

\* transfer_from that writes the allowance of (caller, from)
transfer_from_SwappedKey(self, caller, from, to, value, checks) ==
    LET allowance == MappingGet(self.allowances, << from, caller >>)
    IN  IF allowance < value
        THEN Outcome(self, << >>, AllowanceToolow)
        ELSE transfer_helper(
                 [self EXCEPT !.allowances =
                     MappingInsert(@, << caller, from >>, allowance - value)],
                 from, to, value, checks)

\* transfer_from that checks the balance before the allowance
transfer_from_BalanceFirst(self, caller, from, to, value, checks) ==
    LET allowance == MappingGet(self.allowances, << from, caller >>)
    IN  IF value > balance_of(self, from)
        THEN Outcome(self, << >>, BalanceTooLow)
        ELSE IF allowance < value
        THEN Outcome(self, << >>, AllowanceToolow)
        ELSE transfer_helper(
                 [self EXCEPT !.allowances =
                     MappingInsert(@, << from, caller >>, allowance - value)],
                 from, to, value, checks)

\* transfer_from that refuses value = allowance
transfer_from_StrictCheck(self, caller, from, to, value, checks) ==
    LET allowance == MappingGet(self.allowances, << from, caller >>)
    IN  IF allowance <= value
        THEN Outcome(self, << >>, AllowanceToolow)
        ELSE transfer_helper(
                 [self EXCEPT !.allowances =
                     MappingInsert(@, << from, caller >>, allowance - value)],
                 from, to, value, checks)

\* transfer_from that lets an owner spend from itself without an allowance
transfer_from_SelfAllowed(self, caller, from, to, value, checks) ==
    LET allowance == MappingGet(self.allowances, << from, caller >>)
    IN  IF caller = from
        THEN transfer_helper(self, from, to, value, checks)
        ELSE IF allowance < value
        THEN Outcome(self, << >>, AllowanceToolow)
        ELSE transfer_helper(
                 [self EXCEPT !.allowances =
                     MappingInsert(@, << from, caller >>, allowance - value)],
                 from, to, value, checks)

\* pub fn transfer_from(&mut self, from, to, value) with env().caller() = caller.
\* The allowance is written before transfer_helper runs, and the events and
\* result are those of transfer_helper.
transfer_from(self, caller, from, to, value, checks) ==
    LET allowance == MappingGet(self.allowances, << from, caller >>)
    IN  IF allowance < value
        THEN Outcome(self, << >>, AllowanceToolow)
        ELSE transfer_helper(
                 [self EXCEPT !.allowances =
                     MappingInsert(@, << from, caller >>, allowance - value)],
                 from, to, value, checks)

\* approve that adds value to the allowance instead of overwriting it
approve_Accumulate(self, caller, spender, value) ==
    Outcome([self EXCEPT !.allowances =
                MappingInsert(@, << caller, spender >>,
                              MappingGet(@, << caller, spender >>) + value)],
            << ApprovalEvent(caller, spender, value) >>,
            Ok)

\* pub fn approve(&mut self, spender, value) with env().caller() = caller
approve(self, caller, spender, value) ==
    Outcome([self EXCEPT !.allowances =
                MappingInsert(@, << caller, spender >>, value)],
            << ApprovalEvent(caller, spender, value) >>,
            Ok)

\* ------------------------------------------------------------ transitions
Pairs == Accounts \X Accounts

Call(op, caller, from, to, value, result) ==
    [op |-> op, caller |-> caller, from |-> from, to |-> to,
     value |-> value, result |-> result]

\* Store what a message left behind and record the call.
Commit(out, call) ==
    /\ total_supply' = out.self.total_supply
    /\ balances' = out.self.balances
    /\ allowances' = out.self.allowances
    /\ events' = events \o out.emitted
    /\ last' = call
    /\ ncalls' = ncalls + 1

\* A message that panicked ended the run: nothing is called after it.
Alive == last.result # Panic

\* The environment sends at most n messages.
Budget(n) == ncalls < n

\* The state right after new(supply) called by caller.
InitWith(callers, supplies) ==
    \E caller \in callers, supply \in supplies :
        LET out == new(caller, supply)
        IN  /\ total_supply = out.self.total_supply
            /\ balances = out.self.balances
            /\ allowances = out.self.allowances
            /\ events = out.emitted
            /\ last = Call("new", caller, caller, caller, supply, out.result)
            /\ ncalls = 0
            /\ ceiling = [p \in Pairs |-> 0]
            /\ moved = [p \in Pairs |-> 0]
            /\ taken = [p \in Pairs |-> 0]

\* An addition that overflows panics or wraps, as the build profile's
\* overflow-checks setting decides: both outcomes are taken.
Transfer(caller, to, value) ==
    /\ Alive
    /\ \E checks \in BOOLEAN :
           LET out == transfer(Storage, caller, to, value, checks)
           IN  Commit(out, Call("transfer", caller, caller, to, value, out.result))
    /\ UNCHANGED << ceiling, moved, taken >>

Approve(caller, spender, value) ==
    /\ Alive
    /\ LET out == approve(Storage, caller, spender, value)
       IN  Commit(out, Call("approve", caller, caller, spender, value, out.result))
    /\ ceiling' = [ceiling EXCEPT ![<< caller, spender >>] = value]
    /\ moved' = [moved EXCEPT ![<< caller, spender >>] = 0]
    /\ UNCHANGED taken

TransferFrom(caller, from, to, value) ==
    /\ Alive
    /\ \E checks \in BOOLEAN :
           LET out == transfer_from(Storage, caller, from, to, value, checks)
           IN  /\ Commit(out, Call("transfer_from", caller, from, to, value, out.result))
               /\ moved' = IF out.result = Ok
                           THEN [moved EXCEPT ![<< from, caller >>] = @ + value]
                           ELSE moved
               /\ taken' = IF out.result = Ok
                           THEN [taken EXCEPT ![<< from, caller >>] = @ + value]
                           ELSE taken
    /\ UNCHANGED ceiling

\* ---- Spec: three accounts, small amounts, new(MaxSupply) called by Alice
Values == 0 .. Min(MaxValue, MAX)
Supply == Min(MaxSupply, MAX)

Init == InitWith({"Alice"}, {Supply})

Next ==
    \/ \E caller \in Accounts, to \in Accounts, value \in Values :
           Budget(MaxCalls) /\ Transfer(caller, to, value)
    \/ \E caller \in Accounts, spender \in Accounts, value \in Values :
           Budget(MaxCalls) /\ Approve(caller, spender, value)
    \/ \E caller \in Accounts, from \in Accounts, to \in Accounts,
          value \in Values :
           Budget(MaxCalls) /\ TransferFrom(caller, from, to, value)

Spec == Init /\ [][Next]_vars

\* ---- SpecWide: new called by every account with every supply; few messages
InitWide == InitWith(Accounts, Balances)

NextWide ==
    \/ \E caller \in Accounts, to \in Accounts, value \in Values :
           Budget(MaxCallsWide) /\ Transfer(caller, to, value)
    \/ \E caller \in Accounts, spender \in Accounts, value \in Values :
           Budget(MaxCallsWide) /\ Approve(caller, spender, value)
    \/ \E caller \in Accounts, from \in Accounts, to \in Accounts,
          value \in Values :
           Budget(MaxCallsWide) /\ TransferFrom(caller, from, to, value)

SpecWide == InitWide /\ [][NextWide]_vars

\* ---- SpecDeep: longer runs of one owner (Alice, holding the largest
\* supply) and one spender (Bob), with amounts 1, 2 and MAX
Owner == "Alice"
Spender == "Bob"
Parties == {Owner, Spender}
DeepValues == {1, 2, MAX}

InitDeep == InitWith({Owner}, {MAX})

NextDeep ==
    \/ \E to \in Parties, value \in DeepValues :
           Budget(MaxCallsDeep) /\ Transfer(Owner, to, value)
    \/ \E value \in DeepValues :
           Budget(MaxCallsDeep) /\ Approve(Owner, Spender, value)
    \/ \E to \in Parties, value \in DeepValues :
           Budget(MaxCallsDeep) /\ TransferFrom(Spender, Owner, to, value)

SpecDeep == InitDeep /\ [][NextDeep]_vars

\* ------------------------------------------------------------ properties
RECURSIVE SumOver(_, _)
SumOver(m, keys) ==
    IF keys = {} THEN 0
    ELSE LET k == CHOOSE x \in keys : TRUE
         IN  m[k] + SumOver(m, keys \ {k})

\* Sum of all entries of the balances mapping.
SumBalances == SumOver(balances, DOMAIN balances)

allowance_of(self, owner, spender) == MappingGet(self.allowances, << owner, spender >>)

SameBalances == \A a \in Accounts : balance_of(Storage', a) = balance_of(Storage, a)

SameAllowances ==
    \A p \in Pairs : MappingGet(allowances', p) = MappingGet(allowances, p)

\* C1: in every state reached by calls that returned (successfully or with
\* an error), the sum of all balances equals total_supply.
C1_SumEqualsTotalSupply ==
    last.result # Panic => SumBalances = get_total_supply(Storage)

\* C2: a transfer_from with allowance(from, caller) >= value and
\* balance(from) < value fails with BalanceTooLow and leaves every allowance
\* (that of (from, caller) included) and every balance as before the call.
C2_FailedTransferFromKeepsAllowance ==
    [][(/\ last'.op = "transfer_from"
        /\ allowance_of(Storage, last'.from, last'.caller) >= last'.value
        /\ balance_of(Storage, last'.from) < last'.value)
       => (/\ last'.result = BalanceTooLow
           /\ SameAllowances
           /\ SameBalances)]_vars

\* C3: a transfer to the caller itself with balance >= value returns Ok and
\* leaves every balance as before the call.
C3_SelfTransferIsNoOp ==
    [][(/\ last'.op = "transfer"
        /\ last'.to = last'.caller
        /\ balance_of(Storage, last'.caller) >= last'.value)
       => (last'.result = Ok /\ SameBalances)]_vars

\* C4: a transfer by a caller whose balance is below value returns
\* BalanceTooLow, leaves balances, allowances and total_supply unchanged and
\* emits no event.
C4_TransferBalanceTooLow ==
    [][(/\ last'.op = "transfer"
        /\ balance_of(Storage, last'.caller) < last'.value)
       => (/\ last'.result = BalanceTooLow
           /\ UNCHANGED << total_supply, balances, allowances, events >>)]_vars

\* a refused transfer in a ledger that holds a positive allowance
C4_Witness ==
    /\ last.op = "transfer"
    /\ last.result = BalanceTooLow
    /\ balance_of(Storage, last.caller) < last.value
    /\ \E p \in Pairs : MappingGet(allowances, p) > 0

\* C5: a transfer_from by a caller whose allowance for (from, caller) is
\* below value returns AllowanceToolow and leaves every allowance and every
\* balance unchanged.
C5_TransferFromAllowanceTooLow ==
    [][(/\ last'.op = "transfer_from"
        /\ allowance_of(Storage, last'.from, last'.caller) < last'.value)
       => (/\ last'.result = AllowanceToolow
           /\ UNCHANGED << balances, allowances >>)]_vars

\* the refused spender holds a positive allowance smaller than value, and
\* the owner could have paid
C5_Witness ==
    /\ last.op = "transfer_from"
    /\ last.result = AllowanceToolow
    /\ allowance_of(Storage, last.from, last.caller) > 0
    /\ balance_of(Storage, last.from) >= last.value

\* C6: a transfer with caller # to and balance(caller) >= value returns Ok,
\* lowers the caller's balance by value, raises to's balance by value and
\* leaves every other balance, every allowance and total_supply unchanged.
C6_TransferMovesValue ==
    [][(/\ last'.op = "transfer"
        /\ last'.to # last'.caller
        /\ balance_of(Storage, last'.caller) >= last'.value)
       => (/\ last'.result = Ok
           /\ balance_of(Storage', last'.caller)
                  = balance_of(Storage, last'.caller) - last'.value
           /\ balance_of(Storage', last'.to)
                  = balance_of(Storage, last'.to) + last'.value
           /\ \A a \in Accounts \ {last'.caller, last'.to} :
                  balance_of(Storage', a) = balance_of(Storage, a)
           /\ SameAllowances
           /\ get_total_supply(Storage') = get_total_supply(Storage))]_vars

\* C7: a transfer_from with allowance(from, caller) >= value,
\* balance(from) >= value and from # to returns Ok, lowers the allowance of
\* (from, caller) by value, lowers from's balance by value and raises to's
\* balance by value; a caller that is neither from nor to keeps its balance.
C7_TransferFromMovesValue ==
    [][(/\ last'.op = "transfer_from"
        /\ last'.from # last'.to
        /\ allowance_of(Storage, last'.from, last'.caller) >= last'.value
        /\ balance_of(Storage, last'.from) >= last'.value)
       => (/\ last'.result = Ok
           /\ allowance_of(Storage', last'.from, last'.caller)
                  = allowance_of(Storage, last'.from, last'.caller) - last'.value
           /\ balance_of(Storage', last'.from)
                  = balance_of(Storage, last'.from) - last'.value
           /\ balance_of(Storage', last'.to)
                  = balance_of(Storage, last'.to) + last'.value
           /\ (last'.caller \notin {last'.from, last'.to}
                  => balance_of(Storage', last'.caller)
                         = balance_of(Storage, last'.caller)))]_vars

\* C8: right after new(s) called by c: total_supply() = s, balance_of(c) = s,
\* every other balance is 0, every allowance is 0, and the only event is
\* Transfer{from: None, to: Some(c), value: s}.
C8_Construction ==
    last.op = "new" =>
        /\ get_total_supply(Storage) = last.value
        /\ balance_of(Storage, last.caller) = last.value
        /\ \A a \in Accounts \ {last.caller} : balance_of(Storage, a) = 0
        /\ \A p \in Pairs : MappingGet(allowances, p) = 0
        /\ events = << TransferEvent(None, Some(last.caller), last.value) >>

\* the degenerate ledger: new(0), called by an account other than Alice
C8_Witness ==
    /\ last.op = "new"
    /\ last.caller = "Charlie"
    /\ last.value = 0
    /\ ncalls = 0

\* C9: approve always returns Ok, sets allowance(caller, spender) to value
\* whatever it was, and leaves every other ordered pair and every balance
\* unchanged.
C9_ApproveOverwrites ==
    [][last'.op = "approve"
       => (/\ last'.result = Ok
           /\ allowance_of(Storage', last'.caller, last'.to) = last'.value
           /\ \A p \in Pairs \ {<< last'.caller, last'.to >>} :
                  MappingGet(allowances', p) = MappingGet(allowances, p)
           /\ SameBalances)]_vars

\* an approve above the caller's balance that replaced a positive allowance
\* of the same pair
C9_Witness ==
    /\ last.op = "approve"
    /\ last.value > balance_of(Storage, last.caller)
    /\ \E i \in 1 .. (Len(events) - 1) :
          /\ events[i].event = "Approval"
          /\ events[i].from = last.caller
          /\ events[i].to = last.to
          /\ events[i].value > 0

\* C10: for every owner and spender, the total moved by the spender's
\* successful transfer_from calls since the owner's latest approve (or since
\* construction, with ceiling 0) never exceeds the approved value, and no
\* transfer_from raises the allowance of (from, caller).
C10_AllowanceIsCeiling ==
    /\ [](\A p \in Pairs : moved[p] <= ceiling[p])
    /\ [][last'.op = "transfer_from"
          => allowance_of(Storage', last'.from, last'.caller)
                 <= allowance_of(Storage, last'.from, last'.caller)]_vars

\* the spender used up the approved value in several calls and was then
\* refused
C10_Witness ==
    /\ last.op = "transfer_from"
    /\ last.result = AllowanceToolow
    /\ ceiling[<< last.from, last.caller >>] > 1
    /\ moved[<< last.from, last.caller >>] = ceiling[<< last.from, last.caller >>]
    /\ last.value = 1

\* C11: an allowance changes only through approve or transfer_from: a
\* transfer changes no allowance, approve by c for s changes at most the
\* pair (c, s), and transfer_from(from, ..) by c changes at most (from, c).
C11_AllowanceFrame ==
    [][/\ last'.op = "transfer" => SameAllowances
       /\ last'.op = "approve" =>
              \A p \in Pairs \ {<< last'.caller, last'.to >>} :
                  MappingGet(allowances', p) = MappingGet(allowances, p)
       /\ last'.op = "transfer_from" =>
              \A p \in Pairs \ {<< last'.from, last'.caller >>} :
                  MappingGet(allowances', p) = MappingGet(allowances, p)]_vars

\* a transfer_from by a third party went through and left a positive
\* allowance for its pair
C11_Witness ==
    /\ last.op = "transfer_from"
    /\ last.result = Ok
    /\ last.caller # last.from
    /\ allowance_of(Storage, last.from, last.caller) > 0

\* C12: total_supply() returns the value passed to new (the value of the
\* mint event) in every reachable state, and no message changes it.
C12_TotalSupplyFixed ==
    /\ [](get_total_supply(Storage) = events[1].value)
    /\ [][get_total_supply(Storage') = get_total_supply(Storage)]_vars

\* value moved by a successful call, with a positive total_supply
C12_Witness ==
    /\ last.op \in {"transfer", "transfer_from"}
    /\ last.result = Ok
    /\ last.value > 0
    /\ last.from # last.to
    /\ get_total_supply(Storage) > 0

\* C13: every stored balance and every stored allowance is a non-negative
\* integer: balance_from - value and allowance - value never go below 0.
C13_NoUnderflow ==
    /\ \A a \in DOMAIN balances : balances[a] \in Nat
    /\ \A p \in DOMAIN allowances : allowances[p] \in Nat

\* both subtractions reached 0: the spender used the whole allowance to move
\* the owner's whole balance
C13_Witness ==
    /\ last.op = "transfer_from"
    /\ last.result = Ok
    /\ last.value > 0
    /\ << last.from, last.caller >> \in DOMAIN allowances
    /\ allowances[<< last.from, last.caller >>] = 0
    /\ last.from \in DOMAIN balances
    /\ balances[last.from] = 0

\* The events a call must have emitted, by its kind and result.
ExpectedEvents(call) ==
    IF call.result # Ok THEN << >>
    ELSE IF call.op = "approve"
         THEN << ApprovalEvent(call.caller, call.to, call.value) >>
         ELSE << TransferEvent(Some(call.from), Some(call.to), call.value) >>

\* C14: every call appends to the event log exactly the events of its kind:
\* one Transfer{Some(source), Some(to), value} for a successful transfer
\* (source = caller) or transfer_from (source = from), one
\* Approval{caller, spender, value} for an approve, nothing for an error.
C14_EventLog ==
    [][/\ events' = events \o ExpectedEvents(last')
       /\ last'.op = "transfer" => last'.from = last'.caller]_vars

\* a successful transfer_from by a third party followed a logged call
C14_Witness ==
    /\ last.op = "transfer_from"
    /\ last.result = Ok
    /\ last.caller # last.from
    /\ Len(events) = 3
    /\ events[3] = TransferEvent(Some(last.from), Some(last.to), last.value)

\* C15: transfer_from checks the allowance before the balance: with both
\* too low it returns AllowanceToolow, and it returns BalanceTooLow only
\* when allowance(from, caller) >= value.
C15_AllowanceCheckedFirst ==
    [][last'.op = "transfer_from" =>
          /\ (/\ allowance_of(Storage, last'.from, last'.caller) < last'.value
              /\ balance_of(Storage, last'.from) < last'.value)
                 => last'.result = AllowanceToolow
          /\ last'.result = BalanceTooLow
                 => allowance_of(Storage, last'.from, last'.caller) >= last'.value]_vars

\* both the allowance and the balance were too low
C15_Witness ==
    /\ last.op = "transfer_from"
    /\ last.result = AllowanceToolow
    /\ allowance_of(Storage, last.from, last.caller) < last.value
    /\ balance_of(Storage, last.from) < last.value

\* C16: approve overwrites whatever the spender has already taken.  In the
\* ordering approve(S, N); S.transfer_from(O, _, N'); O.approve(S, M);
\* S.transfer_from(O, to, M) from construction (N' > 0 taken under the first
\* approve, to # O, balance(O) >= M) the last call succeeds as well, so S has
\* taken N' + M in total, more than the ceiling M that O set last.
C16_FrontRunning ==
    [][(/\ ncalls = 3
        /\ last.op = "approve"
        /\ taken[<< last.caller, last.to >>] > 0
        /\ last.value > 0
        /\ last'.op = "transfer_from"
        /\ last'.caller = last.to
        /\ last'.from = last.caller
        /\ last'.to # last'.from
        /\ last'.value = last.value
        /\ balance_of(Storage, last'.from) >= last'.value)
       => (/\ last'.result = Ok
           /\ taken'[<< last'.from, last'.caller >>]
                  = taken[<< last'.from, last'.caller >>] + last'.value
           /\ taken'[<< last'.from, last'.caller >>]
                  > ceiling'[<< last'.from, last'.caller >>]
           /\ balance_of(Storage', last'.from)
                  = balance_of(Storage, last'.from) - last'.value)]_vars

\* the ordering happened with the ceiling lowered from N = 2 to M = 1: every
\* call succeeded and the spender holds N + M
C16_Witness ==
    /\ ncalls = 4
    /\ last.op = "transfer_from"
    /\ last.result = Ok
    /\ Len(events) = 5
    /\ events[2].event = "Approval" /\ events[2].value = 2
    /\ events[3].event = "Transfer" /\ events[3].value = 2
    /\ events[4].event = "Approval" /\ events[4].value = 1
    /\ events[5].event = "Transfer" /\ events[5].value = 1
    /\ ceiling[<< last.from, last.caller >>] = 1
    /\ taken[<< last.from, last.caller >>] = 3
    /\ balance_of(Storage, last.caller) = 3

\* C17: the balance of an account A goes down in a step only if the step is
\* a transfer called by A, or a transfer_from(A, _, value) called by a
\* spender whose allowance for (A, spender) before the call was >= value.
C17_Authorization ==
    [][\A a \in Accounts :
          balance_of(Storage', a) < balance_of(Storage, a) =>
              \/ last'.op = "transfer" /\ last'.caller = a
              \/ /\ last'.op = "transfer_from"
                 /\ last'.from = a
                 /\ allowance_of(Storage, a, last'.caller) >= last'.value]_vars

\* C18: for every call that passes the balance check (and, for
\* transfer_from, the allowance check), balance_to + value <= total_supply
\* <= MAX, so the addition in transfer_helper cannot overflow.
C18_NoOverflow ==
    [][(/\ last'.op \in {"transfer", "transfer_from"}
        /\ last'.result # AllowanceToolow
        /\ last'.result # BalanceTooLow)
       => (/\ balance_of(Storage, last'.to) + last'.value
                  <= get_total_supply(Storage)
           /\ get_total_supply(Storage) <= MAX)]_vars

\* C19: transfer(to, 0) and transfer_from(from, to, 0) return Ok for every
\* caller, whatever the balances and allowances, leave every balance and
\* every allowance value unchanged and emit one Transfer event of value 0.
C19_ZeroValue ==
    [][(/\ last'.op \in {"transfer", "transfer_from"}
        /\ last'.value = 0)
       => (/\ last'.result = Ok
           /\ SameBalances
           /\ SameAllowances
           /\ events' = Append(events,
                 TransferEvent(Some(last'.from), Some(last'.to), 0)))]_vars

\* a transfer_from of 0 by a spender that was never approved, out of an
\* account that holds nothing
C19_Witness ==
    /\ last.op = "transfer_from"
    /\ last.value = 0
    /\ last.result = Ok
    /\ last.caller # last.from
    /\ ceiling[<< last.from, last.caller >>] = 0
    /\ \A i \in 1 .. Len(events) : events[i].event # "Approval"
    /\ balance_of(Storage, last.from) = 0

====
